---- MODULE Spec2Model ----
(***************************************************************************)
(* Request-handling pipeline and error-normalisation contract of the       *)
(* Service class (shipped build dist/service.js).                          *)
(*                                                                         *)
(* JavaScript values are tagged records, so that truthiness, property      *)
(* access on null/undefined and string operations behave as in the code.   *)
(* Strings are sequences of tokens: a token is a word, or one of the       *)
(* characters and substrings the code inspects (Quote, SP, IR, Slash).     *)
(***************************************************************************)
EXTENDS Integers, Sequences, FiniteSets

(* ------------------------------------------------------------------ *)
(* Bounds                                                              *)
(* ------------------------------------------------------------------ *)

\* Longest list of validation failures carried by an error.
MaxErrs == 2

\* Most calls of initialize() made on one Service.
MaxInits == 2

(* ------------------------------------------------------------------ *)
(* JavaScript values                                                   *)
(* ------------------------------------------------------------------ *)

Undefined == [t |-> "undefined"]

Null == [t |-> "null"]

Str(s) == [t |-> "string", s |-> s]

Num(n) == [t |-> "number", n |-> n]

Arr(l) == [t |-> "array", l |-> l]

Obj(id) == [t |-> "object", id |-> id]

Bool(b) == [t |-> "boolean", b |-> b]

\* ToBoolean: undefined, null, false, '' and 0 are falsy, arrays (even
\* empty) and objects are truthy.
Truthy(v) ==
  CASE v.t = "undefined" -> FALSE
    [] v.t = "null"      -> FALSE
    [] v.t = "boolean"   -> v.b
    [] v.t = "string"    -> v.s # <<>>
    [] v.t = "number"    -> v.n # 0
    [] OTHER             -> TRUE

\* a || b
OrElse(a, b) == IF Truthy(a) THEN a ELSE b

\* Template-literal interpolation `${v}` of a string or of undefined.
Interpolate(v) == IF v.t = "string" THEN v.s ELSE <<v.t>>

(* ------------------------------------------------------------------ *)
(* String tokens                                                       *)
(* ------------------------------------------------------------------ *)

\* The double-quote character.
Quote == "<dq>"

\* One space.
SP == " "

\* The substring 'is required!'.
IR == "is required!"

\* The character '/'.
Slash == "/"

\* String.prototype.includes('is required!')
includesIsRequired(s) == \E i \in 1..Len(s) : s[i] = IR

\* Start positions at which /"([^"]+)" is required!/ matches: an opening
\* quote, one or more non-quote characters, a closing quote, a space and
\* 'is required!'.
MatchStarts(s) ==
  { i \in 1..Len(s) :
      /\ s[i] = Quote
      /\ \E j \in (i + 2)..Len(s) :
           /\ s[j] = Quote
           /\ \A k \in (i + 1)..(j - 1) : s[k] # Quote
           /\ j + 2 <= Len(s)
           /\ s[j + 1] = SP
           /\ s[j + 2] = IR }

\* The closing quote of the match that starts at i.
MatchEnd(s, i) == CHOOSE j \in (i + 2)..Len(s) :
                     s[j] = Quote /\ \A k \in (i + 1)..(j - 1) : s[k] # Quote

\* message.match(/"([^"]+)" is required!/): the capture group of the
\* leftmost match, or Null when nothing matches.
matchRequired(s) ==
  IF MatchStarts(s) = {} THEN Null
  ELSE LET i == CHOOSE x \in MatchStarts(s) : \A y \in MatchStarts(s) : x <= y
       IN  Str(SubSeq(s, i + 1, MatchEnd(s, i) - 1))

\* Mutant of replaceFirstSlash: every '/' is removed.
replaceEverySlash(s) == SelectSeq(s, LAMBDA c : c # Slash)

\* String.prototype.replace('/', ''): a string pattern replaces the first
\* occurrence only.
replaceFirstSlash(s) ==
  IF \E i \in 1..Len(s) : s[i] = Slash
  THEN LET i == CHOOSE x \in 1..Len(s) :
                  s[x] = Slash /\ \A y \in 1..(x - 1) : s[y] # Slash
       IN  SubSeq(s, 1, i - 1) \o SubSeq(s, i + 1, Len(s))
  ELSE s

(* ------------------------------------------------------------------ *)
(* Errors                                                              *)
(* ------------------------------------------------------------------ *)

\* An object that can be thrown: the properties the code reads.
ErrorObject(message, validation, statusCode, code, name, details, stack) ==
  [t |-> "error", message |-> message, validation |-> validation,
   statusCode |-> statusCode, code |-> code, name |-> name,
   details |-> details, stack |-> stack]

\* error.<p>: undefined on a primitive; never evaluated on null/undefined
\* (the callers raise the TypeError first).
Prop(error, p) == IF error.t = "error" THEN error[p] ELSE Undefined

\* new Error(message)
NewError(message) ==
  ErrorObject(Str(message), Undefined, Undefined, Undefined,
              Str(<<"Error">>), Undefined, Str(<<"stack">>))

\* The TypeError the runtime raises on a property read of null/undefined.
TypeError ==
  ErrorObject(Str(<<"Cannot read properties">>), Undefined, Undefined,
              Undefined, Str(<<"TypeError">>), Undefined, Str(<<"stack">>))

\* One validation failure.
Failure(instancePath, message) ==
  [t |-> "failure", instancePath |-> instancePath, message |-> message]

\* The outcome of a function that either replies or throws.
Replied(status, body, via) ==
  [threw |-> FALSE, error |-> Undefined,
   sent |-> <<[status |-> status, body |-> body, via |-> via]>>]

Threw(error) == [threw |-> TRUE, error |-> error, sent |-> <<>>]

\* An error-response body; a key holding Undefined is an absent key.
ErrorResponse(error, reason, details, stack) ==
  [t |-> "errorResponse", error |-> error, reason |-> reason,
   details |-> details, stack |-> stack]

\* firstError.instancePath?.replace('/', '') || 'field'
fieldOf(firstError) ==
  LET p == firstError.instancePath
  IN  OrElse(IF p.t = "string" THEN Str(replaceFirstSlash(p.s)) ELSE Undefined,
             Str(<<"field">>))

(* ------------------------------------------------------------------ *)
(* Service: status code policy and error classification                *)
(* ------------------------------------------------------------------ *)

\* Mutant of getStatusCode: the code is looked up by method alone.
getStatusCodeByMethod(method, result) ==
  IF method = "POST" THEN 201
  ELSE IF method = "DELETE" THEN 204
  ELSE 200

getStatusCode(method, result) ==
  IF method = "POST" /\ result # Undefined THEN 201
  ELSE IF method = "DELETE" THEN 204
  ELSE 200

\* The body of the 'is required!' branch shared by handleError and
\* handleSerializationError: fieldName = match ? match[1] : 'field'.
fieldNameOf(message) ==
  LET match == matchRequired(message.s)
  IN  IF Truthy(match) THEN match ELSE Str(<<"field">>)

\* Mutant of stackOf: the stack is attached whatever the environment.
stackOfAlways(error, dev) ==
  IF Truthy(Prop(error, "stack")) THEN Prop(error, "stack") ELSE Undefined

\* if (process.env.NODE_ENV === 'development' && error.stack)
\*   errorResponse.stack = error.stack
stackOf(error, dev) ==
  IF dev /\ Truthy(Prop(error, "stack")) THEN Prop(error, "stack")
  ELSE Undefined

\* Mutant of errorShape: statusCode is tested before the message and the
\* validation list.
errorShapeStatusFirst(error) ==
  IF error.t \in {"null", "undefined"} THEN "raises"
  ELSE IF Truthy(Prop(error, "statusCode")) THEN "status"
  ELSE IF /\ Truthy(Prop(error, "message"))
          /\ includesIsRequired(Prop(error, "message").s) THEN "missing_field"
  ELSE IF Truthy(Prop(error, "validation")) THEN "validation"
  ELSE "fallback"

\* The if / else-if chain of handleError: which shape the thrown value is
\* classified as.  Reading a property of null or undefined raises.
errorShape(error) ==
  IF error.t \in {"null", "undefined"} THEN "raises"
  ELSE IF /\ Truthy(Prop(error, "message"))
          /\ includesIsRequired(Prop(error, "message").s) THEN "missing_field"
  ELSE IF Truthy(Prop(error, "validation")) THEN "validation"
  ELSE IF Truthy(Prop(error, "statusCode")) THEN "status"
  ELSE "fallback"

\* statusCode = 422 and the errorResponse of the 'is required!' branch.
missingFieldReply(error, dev) ==
  LET fieldName == fieldNameOf(Prop(error, "message"))
  IN  Replied(422,
        ErrorResponse(
          Str(<<"Validation Error">>),
          Str(<<"Field ", Quote>> \o fieldName.s \o <<Quote, " is required">>),
          [type |-> "missing_field", field |-> fieldName],
          stackOf(error, dev)),
        "handleError")

\* statusCode = 400 and the errorResponse of the error.validation branch;
\* validation[0] of an empty list is undefined and reading its
\* instancePath raises.
validationReply(error, dev) ==
  LET validation == Prop(error, "validation")
  IN
  IF validation.l = <<>> THEN Threw(TypeError)
  ELSE
    LET firstError == validation.l[1]
        field      == fieldOf(firstError)
    IN  Replied(400,
          ErrorResponse(
            Str(<<"Validation Error">>),
            Str(field.s \o <<": ">> \o Interpolate(firstError.message)),
            [type |-> "validation", errors |-> validation],
            stackOf(error, dev)),
          "handleError")

\* statusCode = error.statusCode and the errorResponse of that branch.
statusReply(error, dev) ==
  Replied(Prop(error, "statusCode").n,
    ErrorResponse(
      OrElse(Prop(error, "name"), Str(<<"Error">>)),
      Prop(error, "message"),
      IF Truthy(Prop(error, "details")) THEN Prop(error, "details")
      ELSE Undefined,
      stackOf(error, dev)),
    "handleError")

\* Mutant of fallbackReply: the error's message is disclosed in development
\* mode only.
fallbackReplyGuarded(error, dev) ==
  Replied(500,
    ErrorResponse(
      Str(<<"Internal Server Error">>),
      IF dev THEN OrElse(Prop(error, "message"), Str(<<"Something went wrong">>))
      ELSE Str(<<"Something went wrong">>),
      Undefined,
      stackOf(error, dev)),
    "handleError")

\* statusCode = 500 and the errorResponse of the final else.
fallbackReply(error, dev) ==
  Replied(500,
    ErrorResponse(
      Str(<<"Internal Server Error">>),
      OrElse(Prop(error, "message"), Str(<<"Something went wrong">>)),
      Undefined,
      stackOf(error, dev)),
    "handleError")

handleError(error, dev) ==
  LET shape == errorShape(error)
  IN  CASE shape = "raises"        -> Threw(TypeError)
        [] shape = "missing_field" -> missingFieldReply(error, dev)
        [] shape = "validation"    -> validationReply(error, dev)
        [] shape = "status"        -> statusReply(error, dev)
        [] OTHER                   -> fallbackReply(error, dev)

\* The errorResponse handleSerializationError builds (its if / else-if
\* chain), for an error on which building it does not raise.
serializationErrorResponse(error) ==
  LET message    == Prop(error, "message")
      validation == Prop(error, "validation")
  IN
  IF Truthy(message) /\ includesIsRequired(message.s) THEN
    LET fieldName == fieldNameOf(message)
    IN  ErrorResponse(
          Str(<<"Response Validation Error">>),
          Str(<<"Field ", Quote>> \o fieldName.s
                \o <<Quote, " is required in response">>),
          [type |-> "missing_field", field |-> fieldName, message |-> message],
          Undefined)
  ELSE IF Truthy(validation) THEN
    LET firstError == validation.l[1]
        field      == fieldOf(firstError)
    IN  ErrorResponse(
          Str(<<"Response Validation Error">>),
          Str(field.s \o <<": ">> \o Interpolate(firstError.message)),
          [type |-> "response_validation", errors |-> validation],
          Undefined)
  ELSE
    ErrorResponse(
      Str(<<"Serialization Error">>),
      OrElse(message, Str(<<"Failed to serialize response">>)),
      Undefined,
      Undefined)

\* Building the errorResponse raises when the error.validation branch is
\* taken with an empty list: validation[0] is undefined.
serializationRaises(error) ==
  /\ ~(/\ Truthy(Prop(error, "message"))
       /\ includesIsRequired(Prop(error, "message").s))
  /\ Truthy(Prop(error, "validation"))
  /\ Prop(error, "validation").l = <<>>

\* Mutant of sendSerializationError: the failure is reported as a server
\* error.
sendSerializationErrorAs500(errorResponse) ==
  Replied(500, errorResponse, "handleSerializationError")

\* return reply.status(422).send(errorResponse)
sendSerializationError(errorResponse) ==
  Replied(422, errorResponse, "handleSerializationError")

handleSerializationError(error) ==
  IF serializationRaises(error) THEN Threw(TypeError)
  ELSE sendSerializationError(serializationErrorResponse(error))

\* Mutant of errorHandler: every error, validation failures included, is
\* delegated to handleError.
errorHandlerDelegating(error, dev) == handleError(error, dev)

\* The callback installed by setErrorHandler.
errorHandler(error, dev) ==
  IF Truthy(Prop(error, "validation")) THEN
    LET validation == Prop(error, "validation")
    IN
    IF validation.l = <<>> THEN Threw(TypeError)
    ELSE
      LET firstError == validation.l[1]
          field      == fieldOf(firstError)
      IN  Replied(400,
            ErrorResponse(
              Str(<<"Validation Error">>),
              Str(field.s \o <<": ">> \o Interpolate(firstError.message)),
              [type |-> "request_validation", errors |-> validation],
              Undefined),
            "errorHandler")
  ELSE handleError(error, dev)

(* ------------------------------------------------------------------ *)
(* Routes, handler outcomes and the response validator                 *)
(* ------------------------------------------------------------------ *)

Methods == {"GET", "POST", "PUT", "PATCH", "DELETE", "OPTIONS"}

\* The status codes getStatusCode can resolve; a route's response map
\* gives each a schema or Undefined.
ResponseCodes == {200, 201, 204}

\* Values a handler can return.
Results == {Undefined, Null, Obj("v1"), Obj("v2")}

\* A response schema, characterised by the values its validator accepts.
Schema(accepts) == [t |-> "schema", accepts |-> accepts]

SchemaA == Schema({Obj("v1"), Obj("v2")})

SchemaB == Schema({Obj("v2")})

\* route.schema?.response: every way of declaring SchemaA for some of the
\* codes, and two maps that declare different schemas for different codes.
ResponseMaps ==
  [ResponseCodes -> {Undefined, SchemaA}] \cup
  {[c \in ResponseCodes |-> IF c = 200 THEN SchemaB
                            ELSE IF c = 201 THEN SchemaA ELSE Undefined],
   [c \in ResponseCodes |-> IF c = 200 THEN SchemaA ELSE SchemaB]}

\* route.method and route.schema?.response
Routes == [method : Methods, response : ResponseMaps]

Paths == {Undefined, Str(<<>>), Str(<<Slash, "user", Slash, "email">>)}

Failures == {Failure(p, Str(<<"must be string">>)) : p \in Paths}

\* Lists of at most MaxErrs failures.
FailureLists == UNION {[1..n -> Failures] : n \in 0..MaxErrs}

Messages == {Undefined, Str(<<>>), Str(<<"boom">>),
             Str(<<Quote, "email", Quote, SP, IR>>),
             Str(<<"name", SP, IR>>),
             Str(<<Quote, "a", Quote, "b", Quote, SP, IR, "!">>)}

\* Every shape of thrown value the classifier distinguishes.
ThrownValues ==
  {Null, Undefined, Str(<<"oops">>)} \cup
  {ErrorObject(m, v, sc, c, n, d, st) :
     m \in Messages,
     v \in {Undefined} \cup {Arr(l) : l \in FailureLists},
     sc \in {Undefined, Num(0), Num(404)},
     c \in {Undefined, Str(<<"23505">>)},
     n \in {Undefined, Str(<<"NotFoundError">>)},
     d \in {Undefined, Obj("details")},
     st \in {Undefined, Str(<<"stack">>)}}

\* The thrown values the whole-pipeline specification feeds to the routes:
\* one representative of each shape.
CoreThrownValues ==
  {e \in ThrownValues :
     e.t = "error" =>
       /\ e.message \in {Undefined, Str(<<"boom">>),
                         Str(<<Quote, "email", Quote, SP, IR>>)}
       /\ e.validation \in {Undefined, Arr(<<>>),
                            Arr(<<Failure(Str(<<Slash, "user", Slash, "email">>),
                                          Str(<<"must be string">>))>>)}
       /\ e.statusCode # Num(0)
       /\ Truthy(e.name) = Truthy(e.details)
       /\ Truthy(e.name) = Truthy(e.stack)
       /\ Truthy(e.name) = Truthy(e.code)}

Returned(v) == [kind |-> "return", value |-> v]

Thrown(e) == [kind |-> "throw", value |-> e]

NoOutcome == [kind |-> "none", value |-> Undefined]

NoRoute == [method |-> "", response |-> [c \in ResponseCodes |-> Undefined]]

\* The error the framework raises when a request fails the route's input
\* schema: it carries the validator's failure list.
FrameworkValidationError(errs) ==
  ErrorObject(Str(<<"body must be string">>), Arr(errs), Num(400),
              Str(<<"FST_ERR_VALIDATION">>), Str(<<"Error">>), Undefined,
              Str(<<"stack">>))

\* validator(result) === true
validatorAccepts(schema, result) == result \in schema.accepts

(* ------------------------------------------------------------------ *)
(* The handler registered for every route                              *)
(* ------------------------------------------------------------------ *)

\* The error thrown for a result the validator rejects: its validation
\* property is validator.errors.
ResponseValidationError(errs) ==
  ErrorObject(Str(<<"Response validation failed">>), Arr(errs), Undefined,
              Undefined, Str(<<"Error">>), Undefined, Str(<<"stack">>))

\* Mutant of respond: the result is sent without validating it.
respondUnvalidated(rt, result, compilerReady, errs) ==
  Replied(getStatusCode(rt.method, result), result, "route")

\* Mutant of respond: the result is wrapped in a {success, data} envelope.
respondEnveloped(rt, result, compilerReady, errs) ==
  LET statusCode     == getStatusCode(rt.method, result)
      responseSchema == rt.response[statusCode]
      envelope       == [t |-> "envelope", success |-> TRUE, data |-> result]
  IN
  IF Truthy(responseSchema) THEN
    LET tried ==
          IF ~compilerReady
          THEN Threw(NewError(<<"Validator compiler not initialized">>))
          ELSE IF validatorAccepts(responseSchema, result)
          THEN Replied(statusCode, envelope, "route")
          ELSE Threw(ResponseValidationError(errs))
    IN  IF tried.threw THEN handleSerializationError(tried.error) ELSE tried
  ELSE Replied(statusCode, envelope, "route")

\* Mutant of respond: a 204 reply is sent without a body.
respondEmptyOn204(rt, result, compilerReady, errs) ==
  LET statusCode     == getStatusCode(rt.method, result)
      responseSchema == rt.response[statusCode]
      body           == IF statusCode = 204 THEN Undefined ELSE result
  IN
  IF Truthy(responseSchema) THEN
    LET tried ==
          IF ~compilerReady
          THEN Threw(NewError(<<"Validator compiler not initialized">>))
          ELSE IF validatorAccepts(responseSchema, result)
          THEN Replied(statusCode, body, "route")
          ELSE Threw(ResponseValidationError(errs))
    IN  IF tried.threw THEN handleSerializationError(tried.error) ELSE tried
  ELSE Replied(statusCode, body, "route")

\* The statements after `await route.handler(...)`: resolve the status
\* code, validate against the schema declared for it, send.  compilerReady
\* is the truthiness of this.app.validatorCompiler, errs is validator.errors
\* when the validator rejects.
respond(rt, result, compilerReady, errs) ==
  LET statusCode     == getStatusCode(rt.method, result)
      responseSchema == rt.response[statusCode]
  IN
  IF Truthy(responseSchema) THEN
    LET tried ==
          IF ~compilerReady
          THEN Threw(NewError(<<"Validator compiler not initialized">>))
          ELSE IF validatorAccepts(responseSchema, result)
          THEN Replied(statusCode, result, "route")
          ELSE Threw(ResponseValidationError(errs))
    IN  IF tried.threw THEN handleSerializationError(tried.error) ELSE tried
  ELSE Replied(statusCode, result, "route")

\* Mutant of routeHandler: the catch block drops the error without a reply.
routeHandlerSwallowing(rt, oc, compilerReady, errs, dev) ==
  LET tried == IF oc.kind = "throw" THEN Threw(oc.value)
               ELSE respond(rt, oc.value, compilerReady, errs)
  IN  IF tried.threw
      THEN [threw |-> FALSE, error |-> Undefined, sent |-> <<>>]
      ELSE tried

\* The async route handler from the point where the application handler
\* has settled with outcome oc; a Threw result is the rejection of the
\* promise the route handler returns.
routeHandler(rt, oc, compilerReady, errs, dev) ==
  LET tried == IF oc.kind = "throw" THEN Threw(oc.value)
               ELSE respond(rt, oc.value, compilerReady, errs)
  IN  IF tried.threw THEN handleError(tried.error, dev) ELSE tried

\* Mutant of respondStages: the result is sent before it is validated.
respondStagesSendFirst(rt, result, compilerReady, errs) ==
  LET responseSchema == rt.response[getStatusCode(rt.method, result)]
      sent           == respond(rt, result, compilerReady, errs).sent # <<>>
  IN  <<"status">> \o (IF sent THEN <<"send">> ELSE <<>>)
                   \o (IF Truthy(responseSchema) THEN <<"validate">> ELSE <<>>)

\* The stages the statements after the await go through, in program order:
\* getStatusCode, the validation block when a schema is declared for the
\* code, and the send (by the block, by handleSerializationError or by the
\* else branch) unless handleSerializationError raised.
respondStages(rt, result, compilerReady, errs) ==
  LET responseSchema == rt.response[getStatusCode(rt.method, result)]
      sent           == respond(rt, result, compilerReady, errs).sent # <<>>
  IN  <<"status">> \o (IF Truthy(responseSchema) THEN <<"validate">> ELSE <<>>)
                   \o (IF sent THEN <<"send">> ELSE <<>>)

\* The stages of the route handler from the point where the awaited
\* application handler settles; the catch block sends through handleError.
routeStages(rt, oc, compilerReady, errs, dev) ==
  LET tried == IF oc.kind = "throw" THEN Threw(oc.value)
               ELSE respond(rt, oc.value, compilerReady, errs)
  IN  <<"settle">>
        \o (IF oc.kind = "throw" THEN <<>>
            ELSE respondStages(rt, oc.value, compilerReady, errs))
        \o (IF tried.threw /\ handleError(tried.error, dev).sent # <<>>
            THEN <<"send">> ELSE <<>>)

(* ------------------------------------------------------------------ *)
(* The route pipeline of the TypeScript source (src/service.ts)        *)
(* ------------------------------------------------------------------ *)

\* handleError of the TypeScript source: statusCode, then code '23505',
\* else 500; the body is {error: message} with details and stack when
\* present.  Reading error.statusCode of null or undefined raises.
handleErrorTs(error, dev) ==
  IF error.t \in {"null", "undefined"} THEN Threw(TypeError)
  ELSE IF Truthy(Prop(error, "statusCode")) THEN
    Replied(Prop(error, "statusCode").n,
      ErrorResponse(
        OrElse(Prop(error, "message"), Str(<<"Internal server error">>)),
        Undefined,
        IF Truthy(Prop(error, "details")) THEN Prop(error, "details")
        ELSE Undefined,
        stackOf(error, dev)),
      "handleError")
  ELSE IF Prop(error, "code") = Str(<<"23505">>) THEN
    Replied(409,
      ErrorResponse(Str(<<"Resource already exists">>), Undefined, Undefined,
                    stackOf(error, dev)),
      "handleError")
  ELSE
    Replied(500,
      ErrorResponse(Str(<<"Internal server error">>), Undefined, Undefined,
                    stackOf(error, dev)),
      "handleError")

\* The route handler of the TypeScript source from the point where the
\* application handler has settled: the result is sent under the resolved
\* status code without being validated; a thrown value goes to handleError.
routeHandlerTs(rt, oc, dev) ==
  IF oc.kind = "throw" THEN handleErrorTs(oc.value, dev)
  ELSE Replied(getStatusCode(rt.method, oc.value), oc.value, "route")

\* The callback the TypeScript source installs with setErrorHandler.
errorHandlerTs(error, dev) ==
  IF Truthy(Prop(error, "validation")) THEN
    Replied(400,
      ErrorResponse(
        Str(<<"Validation failed">>),
        Undefined,
        [type |-> "request_validation", errors |-> Prop(error, "validation"),
         message |-> OrElse(Prop(error, "message"),
                            Str(<<"Invalid request data">>))],
        Undefined),
      "errorHandler")
  ELSE handleErrorTs(error, dev)

\* The replies of the TypeScript source to a request whose handler settles
\* with oc: the route handler's, or the error handler's when the route
\* handler's promise rejects.
pipelineTs(rt, oc, dev) ==
  LET h == routeHandlerTs(rt, oc, dev)
  IN  IF h.threw THEN errorHandlerTs(h.error, dev) ELSE h

(* ------------------------------------------------------------------ *)
(* Route registration: URL, schema and the data handed to the handler  *)
(* ------------------------------------------------------------------ *)

\* An object is a function from its own keys to values; Obj(id) refers to
\* the object stored under id.
EmptyObject == [k \in {} |-> Undefined]

\* o[k]: undefined for a key the object does not have.
Get(o, k) == IF k \in DOMAIN o THEN o[k] ELSE Undefined

\* o[k] = v
Set(o, k, v) == [j \in DOMAIN o \cup {k} |-> IF j = k THEN v ELSE o[j]]

\* { ...a, ...b }
Spread(a, b) ==
  [k \in DOMAIN a \cup DOMAIN b |-> IF k \in DOMAIN b THEN b[k] ELSE a[k]]

\* ref?.[k] for a reference into memory h: undefined when ref is null or
\* undefined.
GetIn(h, ref, k) == IF Truthy(ref) THEN Get(h[ref.id], k) ELSE Undefined

\* Longest prefix and path, in characters.
MaxPath == 3

\* The strings of at most MaxPath characters over '/' and 'a'.
PathStrings == UNION {[1..n -> {Slash, "a"}] : n \in 0..MaxPath}

RECURSIVE collapseSlashRuns(_)

\* Mutant of replaceSlashPairs: every run of slashes becomes one slash, as
\* .replace(/\/+/g, '/') does.
collapseSlashRuns(s) ==
  IF Len(s) < 2 THEN s
  ELSE IF s[1] = Slash /\ s[2] = Slash THEN collapseSlashRuns(Tail(s))
  ELSE <<s[1]>> \o collapseSlashRuns(Tail(s))

RECURSIVE replaceSlashPairs(_)

\* String.prototype.replace(/\/\//g, '/'): the matches are found left to
\* right without overlap and the result is not scanned again.
replaceSlashPairs(s) ==
  IF Len(s) < 2 THEN s
  ELSE IF s[1] = Slash /\ s[2] = Slash
       THEN <<Slash>> \o replaceSlashPairs(Tail(Tail(s)))
  ELSE <<s[1]>> \o replaceSlashPairs(Tail(s))

\* `${this.options.prefix}${route.path}`.replace(/\/\//g, '/')
fullPath(pre, path) == replaceSlashPairs(pre \o path)

\* The sections of a request and the schema keys that declare them.
Sections == {"body", "params", "query", "headers"}

\* The keys of a response map the caller may fill.
ResponseKeys == {"200", "400", "500"}

\* The shape the caller declares for a response code.
CallerShape(c) ==
  CASE c = "200" -> Obj("callerShape200")
    [] c = "400" -> Obj("callerShape400")
    [] c = "500" -> Obj("callerShape500")

\* route.schema.response as the caller can supply it.
CallerResponseMaps ==
  {[c \in D |-> CallerShape(c)] : D \in SUBSET ResponseKeys}

\* The schema the caller declares for a section of the request.
SectionSchema(k) ==
  CASE k = "body"    -> Obj("bodySchema")
    [] k = "params"  -> Obj("paramsSchema")
    [] k = "query"   -> Obj("querySchema")
    [] k = "headers" -> Obj("headersSchema")

\* route.schema as the caller can supply it: any of the four sections and
\* a response map, all optional.
CallerSchemas ==
  {[k \in D |-> IF k = "response" THEN Obj("response") ELSE SectionSchema(k)] :
     D \in SUBSET (Sections \cup {"response"})}

\* route.config as the caller can supply it.
CallerConfigs ==
  {[k \in D |-> CASE k = "tags"        -> Arr(<<"users">>)
                  [] k = "summary"     -> Str(<<"List users">>)
                  [] k = "description" -> Str(<<"All users">>)
                  [] k = "deprecated"  -> Bool(TRUE)] :
     D \in SUBSET {"tags", "summary", "description", "deprecated"}}

\* The memory after the caller built one route definition: the route, and
\* the schema, response map and config it refers to.  Absent marks a part
\* the caller left out.
Absent == [t |-> "absent"]

RouteHeap(method, path, schema, response, config) ==
  LET route == Spread(
                 Spread([method |-> method, path |-> Str(path)],
                        IF schema = Absent THEN EmptyObject
                        ELSE [schema |-> Obj("schema")]),
                 IF config = Absent THEN EmptyObject
                 ELSE [config |-> Obj("config")])
      ids   == {"route"}
                 \cup (IF schema = Absent THEN {} ELSE {"schema"})
                 \cup (IF response = Absent THEN {} ELSE {"response"})
                 \cup (IF config = Absent THEN {} ELSE {"config"})
  IN  [id \in ids |-> CASE id = "route"    -> route
                        [] id = "schema"   -> schema
                        [] id = "response" -> response
                        [] id = "config"   -> config]

\* Route definitions that differ in schema and response map.
SchemaHeaps ==
  {RouteHeap("GET", <<Slash, "a">>, Absent, Absent, Absent)} \cup
  {RouteHeap("GET", <<Slash, "a">>, s, Absent, Absent) :
     s \in {x \in CallerSchemas : "response" \notin DOMAIN x}} \cup
  {RouteHeap("GET", <<Slash, "a">>, s, m, Absent) :
     s \in {x \in CallerSchemas : "response" \in DOMAIN x},
     m \in CallerResponseMaps}

\* Route definitions that differ in config.
ConfigHeaps ==
  {RouteHeap("POST", <<Slash, "a">>, [body |-> SectionSchema("body")],
             Absent, c) : c \in CallerConfigs}

\* Route definitions that differ in path.
PathHeaps ==
  {RouteHeap("GET", p, Absent, Absent, Absent) : p \in PathStrings}

\* Mutant of normalize: default shapes for 400 and 500 are written into
\* routeSchema.response, which is the caller's response map when the
\* caller supplied one.
normalizeWithDefaults(h) ==
  LET route  == h["route"]
      schema == Get(route, "schema")
      config == Get(route, "config")
      spread == Spread(IF Truthy(schema) THEN h[schema.id] ELSE EmptyObject,
                       [hide |-> Bool(FALSE),
                        tags |-> OrElse(GetIn(h, config, "tags"),
                                        Arr(<<"default">>))])
      fresh  == ~Truthy(Get(spread, "response"))
      routeSchema == IF fresh THEN Set(spread, "response", Obj("newResponse"))
                     ELSE spread
      map    == routeSchema["response"].id
      h1     == IF fresh THEN Set(h, "newResponse", EmptyObject) ELSE h
      h2     == IF Truthy(Get(h1[map], "400")) THEN h1
                ELSE Set(Set(h1, "default400",
                             [type |-> Str(<<"object">>),
                              properties |-> {"success", "error", "details"}]),
                         map, Set(h1[map], "400", Obj("default400")))
      h3     == IF Truthy(Get(h2[map], "500")) THEN h2
                ELSE Set(Set(h2, "default500",
                             [type |-> Str(<<"object">>),
                              properties |-> {"success", "error"}]),
                         map, Set(h2[map], "500", Obj("default500")))
  IN  Set(h3, "routeSchema", routeSchema)

\* The schema registerRoutes builds for a route: a new object with the keys
\* of route.schema, hide, tags, and summary, description and deprecated
\* when route.config has them.  Returns the memory with the new object
\* stored as routeSchema.
normalize(h) ==
  LET route  == h["route"]
      schema == Get(route, "schema")
      config == Get(route, "config")
      spread == Spread(IF Truthy(schema) THEN h[schema.id] ELSE EmptyObject,
                       [hide |-> Bool(FALSE),
                        tags |-> OrElse(GetIn(h, config, "tags"),
                                        Arr(<<"default">>))])
      summary     == GetIn(h, config, "summary")
      description == GetIn(h, config, "description")
      deprecated  == GetIn(h, config, "deprecated")
      s1 == IF Truthy(summary) THEN Set(spread, "summary", summary) ELSE spread
      s2 == IF Truthy(description) THEN Set(s1, "description", description)
            ELSE s1
      s3 == IF Truthy(deprecated) THEN Set(s2, "deprecated", deprecated) ELSE s2
  IN  Set(h, "routeSchema", s3)

\* The raw request: every section holds a value or undefined.
RawBodies == {Undefined, Null, Bool(FALSE), Num(0), Str(<<>>), Obj("body")}

RawRequests ==
  {[body |-> b, params |-> p, query |-> q, headers |-> hd] :
     b \in RawBodies,
     p \in {Undefined, Obj("params")},
     q \in {Undefined, Obj("query")},
     hd \in {Undefined, Obj("headers")}}

\* No request has been delivered.
NoRequest == [body |-> Absent, params |-> Absent, query |-> Absent,
              headers |-> Absent]

\* Mutant of handlerData: a section is passed only when route.schema
\* declares it.
handlerDataDeclaredOnly(h, request) ==
  LET schema == Get(h["route"], "schema")
  IN  [k \in {s \in Sections : Truthy(GetIn(h, schema, s))} \cup {"request"} |->
         IF k = "request" THEN Obj("request") ELSE request[k]]

\* The object literal the route handler passes to route.handler: the four
\* raw sections and the request itself.
handlerData(h, request) ==
  [k \in Sections \cup {"request"} |->
     IF k = "request" THEN Obj("request") ELSE request[k]]

\* Mutant of validateRequest: the result has all four keys, undefined for a
\* section the schema does not declare.
validateRequestAllKeys(h, request, schema) ==
  [k \in Sections |->
     IF Truthy(GetIn(h, schema, k)) THEN request[k] ELSE Undefined]

\* Validator.validateRequest(request, schema): a section is copied when
\* schema?.<section> && request.<section>.
validateRequest(h, request, schema) ==
  [k \in {s \in Sections :
            Truthy(GetIn(h, schema, s)) /\ Truthy(request[s])} |-> request[k]]

(* ------------------------------------------------------------------ *)
(* State                                                               *)
(* ------------------------------------------------------------------ *)

\* Request slots; the sequential specifications serve requests in Serial.
Reqs == {"r1", "r2"}

Serial == {"r1"}

VARIABLES
  dev,                \* process.env.NODE_ENV === 'development'
  validatorCompiler,  \* truthiness of this.app.validatorCompiler
  pc,                 \* per request: idle, awaiting, failed, done
  route,              \* per request: the route it was dispatched to
  outcome,            \* per request: how the application handler settles
  pending,            \* per request: the error handed to the framework
  escaped,            \* per request: the route handler's promise rejected
  replies,            \* per request: the replies sent, in order
  stages,             \* per request: the pipeline stages run, in order
  autoDocs,           \* this.options.autoDocs
  phase,              \* the server: configured, listening, closed, exited
  initPc,             \* per call of initialize(): where it stands
  closePc,            \* the call of close(): idle, closing, returned
  docsRegistered,     \* the documentation plugins are registered
  routeTable,         \* per declared route: the bundle its handler holds, 0 if none
  routeCalls,         \* per declared route: calls of this.app.route made for it
  errorHandlerInstalled, \* this.app.setErrorHandler was called
  bundles,            \* number of extensions bundles constructed so far
  runBundle,          \* per call of initialize(): its extensions, 0 if none
  log,                \* lifecycle steps completed, in order: <<call, step>>
  received,           \* handler invocations: route and second argument
  console,            \* console.warn and console.error calls, in order
  exitCode,           \* the argument of process.exit, Undefined while running
  rejection,          \* per call of initialize(): what it rejected with
  prefix,             \* this.options.prefix
  heap,               \* the objects in memory, by identity: key -> value
  supplied,           \* the objects the caller handed to new Service(...)
  handed,             \* the arguments of this.app.route, in call order
  raw,                \* the request the framework delivers to the route
  data,               \* the first argument route.handler received
  adapted             \* what Validator.validateRequest returned

\* The state of one request pipeline.
pipelineVars ==
  <<dev, validatorCompiler, pc, route, outcome, pending, escaped, replies,
    stages>>

\* The state of the service's lifecycle.
lifecycleVars ==
  <<autoDocs, phase, initPc, closePc, docsRegistered, routeTable, routeCalls,
    errorHandlerInstalled, bundles, runBundle, log, received, console,
    exitCode, rejection>>

\* One route definition on its way through registerRoutes, and one request
\* on its way to the route's handler.
routeVars == <<prefix, heap, supplied, handed, raw, data, adapted>>

vars == <<pipelineVars, lifecycleVars, routeVars>>

\* The calls of initialize() made on the Service, in the order made.
Inits == 1..MaxInits

\* this.options.routes, by name, in declaration order.
DeclaredRoutes == <<"a", "b">>

RouteNames == {DeclaredRoutes[k] : k \in 1..Len(DeclaredRoutes)}

\* The lifecycle after `new Service(options)`.
Configured ==
  /\ autoDocs \in BOOLEAN
  /\ phase = "configured"
  /\ initPc = [i \in Inits |-> "idle"]
  /\ closePc = "idle"
  /\ docsRegistered = FALSE
  /\ routeTable = [rt \in RouteNames |-> 0]
  /\ routeCalls = [rt \in RouteNames |-> 0]
  /\ errorHandlerInstalled = FALSE
  /\ bundles = 0
  /\ runBundle = [i \in Inits |-> 0]
  /\ log = <<>>
  /\ received = {}
  /\ console = <<>>
  /\ exitCode = Undefined
  /\ rejection = [i \in Inits |-> "none"]

\* The lifecycle after the first initialize() has run to its end: the
\* state in which requests are served.
Started ==
  /\ autoDocs = TRUE
  /\ phase = "listening"
  /\ initPc = [i \in Inits |-> IF i = 1 THEN "returned" ELSE "idle"]
  /\ closePc = "idle"
  /\ docsRegistered = TRUE
  /\ routeTable = [rt \in RouteNames |-> 1]
  /\ routeCalls = [rt \in RouteNames |-> 1]
  /\ errorHandlerInstalled = TRUE
  /\ bundles = 1
  /\ runBundle = [i \in Inits |-> IF i = 1 THEN 1 ELSE 0]
  /\ log = <<<<1, "docs">>, <<1, "routes">>, <<1, "errorHandler">>,
             <<1, "listening">>>>
  /\ received = {}
  /\ console = <<>>
  /\ exitCode = Undefined
  /\ rejection = [i \in Inits |-> "none"]

\* No route definition is being registered and no request adapted.
Unrouted ==
  /\ prefix = <<>>
  /\ heap = EmptyObject
  /\ supplied = EmptyObject
  /\ handed = <<>>
  /\ raw = NoRequest
  /\ data = Absent
  /\ adapted = Absent

Init ==
  /\ Started
  /\ dev \in BOOLEAN
  /\ validatorCompiler \in BOOLEAN
  /\ pc = [r \in Reqs |-> "idle"]
  /\ route = [r \in Reqs |-> NoRoute]
  /\ outcome = [r \in Reqs |-> NoOutcome]
  /\ pending = [r \in Reqs |-> Undefined]
  /\ escaped = [r \in Reqs |-> FALSE]
  /\ replies = [r \in Reqs |-> <<>>]
  /\ stages = [r \in Reqs |-> <<>>]
  /\ Unrouted

\* The framework accepts a request for route rt and calls the route
\* handler, which calls the application handler and awaits it.
Dispatch(r, rt, oc) ==
  /\ pc[r] = "idle"
  /\ pc' = [pc EXCEPT ![r] = "awaiting"]
  /\ route' = [route EXCEPT ![r] = rt]
  /\ outcome' = [outcome EXCEPT ![r] = oc]
  /\ stages' = [stages EXCEPT ![r] = <<"call">>]
  /\ UNCHANGED <<dev, validatorCompiler, pending, escaped, replies,
                 lifecycleVars, routeVars>>

\* The framework rejects a request against the route's input schema and
\* raises the failure itself; the route handler does not run.
RequestInvalid(r, rt, errs) ==
  /\ pc[r] = "idle"
  /\ errs # <<>>
  /\ pc' = [pc EXCEPT ![r] = "failed"]
  /\ route' = [route EXCEPT ![r] = rt]
  /\ pending' = [pending EXCEPT ![r] = FrameworkValidationError(errs)]
  /\ UNCHANGED <<dev, validatorCompiler, outcome, escaped, replies, stages,
                 lifecycleVars, routeVars>>

\* What validator.errors can hold when the route handler reads it: a
\* non-empty failure list.  It is read only after the validator has run
\* and rejected the result; otherwise its content is immaterial.
ValidatorErrors(rt, oc, compilerReady) ==
  IF /\ oc.kind = "return"
     /\ compilerReady
     /\ Truthy(rt.response[getStatusCode(rt.method, oc.value)])
     /\ ~validatorAccepts(rt.response[getStatusCode(rt.method, oc.value)], oc.value)
  THEN FailureLists \ {<<>>}
  ELSE {<<>>}

\* Mutant of Resume: the reply object is shared by the invocations of the
\* route handler, so the reply goes out on the request that arrived while
\* this one was awaiting its handler.
ResumeOnSharedReply(r) ==
  /\ pc[r] = "awaiting"
  /\ \E errs \in ValidatorErrors(route[r], outcome[r], validatorCompiler) :
       LET h == routeHandler(route[r], outcome[r], validatorCompiler, errs, dev)
           target == IF \E s \in Reqs \ {r} : pc[s] = "awaiting"
                     THEN CHOOSE s \in Reqs \ {r} : pc[s] = "awaiting"
                     ELSE r
       IN  /\ replies' = [replies EXCEPT ![target] = h.sent]
           /\ escaped' = [escaped EXCEPT ![r] = h.threw]
           /\ pending' = [pending EXCEPT ![r] = h.error]
           /\ pc' = [pc EXCEPT ![r] = IF h.threw THEN "failed" ELSE "done"]
           /\ stages' = [stages EXCEPT
                           ![r] = @ \o routeStages(route[r], outcome[r],
                                                   validatorCompiler, errs, dev)]
  /\ UNCHANGED <<dev, validatorCompiler, route, outcome, lifecycleVars,
                 routeVars>>

\* The application handler settles and the route handler runs to its end.
Resume(r) ==
  /\ pc[r] = "awaiting"
  /\ \E errs \in ValidatorErrors(route[r], outcome[r], validatorCompiler) :
       LET h == routeHandler(route[r], outcome[r], validatorCompiler, errs, dev)
       IN  /\ replies' = [replies EXCEPT ![r] = h.sent]
           /\ escaped' = [escaped EXCEPT ![r] = h.threw]
           /\ pending' = [pending EXCEPT ![r] = h.error]
           /\ pc' = [pc EXCEPT ![r] = IF h.threw THEN "failed" ELSE "done"]
           /\ stages' = [stages EXCEPT
                           ![r] = @ \o routeStages(route[r], outcome[r],
                                                   validatorCompiler, errs, dev)]
  /\ UNCHANGED <<dev, validatorCompiler, route, outcome, lifecycleVars,
                 routeVars>>

\* The framework hands the error it holds to the installed error handler.
CatchAll(r) ==
  /\ pc[r] = "failed"
  /\ LET h == errorHandler(pending[r], dev)
     IN  /\ replies' = [replies EXCEPT ![r] = replies[r] \o h.sent]
         /\ pending' = [pending EXCEPT ![r] = h.error]
         /\ stages' = [stages EXCEPT
                         ![r] = @ \o IF h.sent # <<>> THEN <<"send">> ELSE <<>>]
  /\ pc' = [pc EXCEPT ![r] = "done"]
  /\ UNCHANGED <<dev, validatorCompiler, route, outcome, escaped,
                 lifecycleVars, routeVars>>

\* The response has gone out; the slot is free for the next request.
Finish(r) ==
  /\ pc[r] = "done"
  /\ pc' = [pc EXCEPT ![r] = "idle"]
  /\ route' = [route EXCEPT ![r] = NoRoute]
  /\ outcome' = [outcome EXCEPT ![r] = NoOutcome]
  /\ pending' = [pending EXCEPT ![r] = Undefined]
  /\ escaped' = [escaped EXCEPT ![r] = FALSE]
  /\ replies' = [replies EXCEPT ![r] = <<>>]
  /\ stages' = [stages EXCEPT ![r] = <<>>]
  /\ UNCHANGED <<dev, validatorCompiler, lifecycleVars, routeVars>>

\* The requests the whole-pipeline specification dispatches.
Arrive(r) ==
  /\ pc[r] = "idle"
  /\ \/ \E rt \in Routes, v \in Results : Dispatch(r, rt, Returned(v))
     \/ \E rt \in Routes, e \in CoreThrownValues : Dispatch(r, rt, Thrown(e))
     \/ \E rt \in Routes, errs \in FailureLists : RequestInvalid(r, rt, errs)

Next ==
  \E r \in Serial :
    \/ Arrive(r)
    \/ Resume(r)
    \/ CatchAll(r)
    \/ Finish(r)

Spec == Init /\ [][Next]_vars

\* The classifier alone: one route without response schema, every shape
\* of thrown value.
PlainRoute == [method |-> "GET", response |-> [c \in ResponseCodes |-> Undefined]]

ArriveThrowing(r) ==
  /\ pc[r] = "idle"
  /\ \E e \in ThrownValues : Dispatch(r, PlainRoute, Thrown(e))

NextClassify ==
  \E r \in Serial :
    \/ ArriveThrowing(r)
    \/ Resume(r)
    \/ CatchAll(r)
    \/ Finish(r)

SpecClassify == Init /\ [][NextClassify]_vars

(* ------------------------------------------------------------------ *)
(* Service lifecycle: initialize() and close()                         *)
(* ------------------------------------------------------------------ *)

\* Mutant of firstStep: the documentation is set up whatever autoDocs says.
firstStepAlwaysDocs(docs) == "docs"

\* initialize() up to its first await: setupDocs when autoDocs is on,
\* createExtensions otherwise.
firstStep(docs) == IF docs THEN "docs" ELSE "extensions"

\* this.app.route(...) raises when the framework refuses the route: the
\* instance has already started, or the route is already declared.
appRouteThrows(table, started, rt) == started \/ table[rt] # 0

RECURSIVE registerFrom(_, _, _, _, _)

\* The for-of loop of registerRoutes from the k-th declared route on: each
\* iteration calls this.app.route with a handler that holds extensions; a
\* call that raises ends the loop.
registerFrom(k, table, calls, started, extensions) ==
  IF k > Len(DeclaredRoutes)
  THEN [routes |-> table, calls |-> calls, threw |-> FALSE]
  ELSE LET rt      == DeclaredRoutes[k]
           counted == [calls EXCEPT ![rt] = @ + 1]
       IN  IF appRouteThrows(table, started, rt)
           THEN [routes |-> table, calls |-> counted, threw |-> TRUE]
           ELSE registerFrom(k + 1, [table EXCEPT ![rt] = extensions],
                             counted, started, extensions)

registerRoutes(table, calls, started, extensions) ==
  registerFrom(1, table, calls, started, extensions)

\* Mutant of handlerExtensions: the handler is called with one argument.
handlerExtensionsOmitted(captured) == 0

\* The second argument of route.handler(...): the extensions the closure
\* captured when the route was registered.
handlerExtensions(captured) == captured

\* A call of initialize() begins and suspends at its first await.
CallInitialize(i) ==
  /\ initPc[i] = "idle"
  /\ phase # "exited"
  /\ \A j \in Inits : j < i => initPc[j] # "idle"
  /\ initPc' = [initPc EXCEPT ![i] = firstStep(autoDocs)]
  /\ UNCHANGED <<autoDocs, phase, closePc, docsRegistered, routeTable,
                 routeCalls, errorHandlerInstalled, bundles, runBundle, log,
                 received, console, exitCode, rejection>>
  /\ UNCHANGED <<pipelineVars, routeVars>>

\* The text console.warn prints when the documentation cannot be set up.
DocsDisabled == "Swagger dependencies not found. Docs disabled."

\* Mutant of setupDocs: the catch block raises what it caught.
setupDocsRethrowing(i, loaded, printed) ==
  [registered |-> loaded,
   threw      |-> ~loaded,
   console    |-> IF loaded THEN printed
                  ELSE Append(printed, <<i, "warn", DocsDisabled>>)]

\* setupDocs: the plugins are imported and registered inside a try block;
\* the catch block warns and returns.
setupDocs(i, loaded, printed) ==
  [registered |-> loaded,
   threw      |-> FALSE,
   console    |-> IF loaded THEN printed
                  ELSE Append(printed, <<i, "warn", DocsDisabled>>)]

\* setupDocs settles: the plugins are registered, or importing or
\* registering them failed.  The framework takes plugins only before it has
\* started, and only once.
SetupDocs(i) ==
  /\ initPc[i] = "docs"
  /\ phase # "exited"
  /\ \E loaded \in BOOLEAN :
       /\ loaded => (phase = "configured" /\ ~docsRegistered)
       /\ LET d == setupDocs(i, loaded, console)
          IN  /\ docsRegistered' = (docsRegistered \/ d.registered)
              /\ log' = IF d.registered THEN Append(log, <<i, "docs">>) ELSE log
              /\ console' = d.console
              /\ initPc' = [initPc EXCEPT
                              ![i] = IF d.threw THEN "rejected" ELSE "extensions"]
              /\ rejection' = [rejection EXCEPT
                                 ![i] = IF d.threw THEN "docs" ELSE @]
  /\ UNCHANGED <<autoDocs, phase, closePc, routeTable, routeCalls,
                 errorHandlerInstalled, bundles, runBundle, received, exitCode>>
  /\ UNCHANGED <<pipelineVars, routeVars>>

\* initialize() after createExtensions has resolved with a new bundle:
\* registerRoutes, setErrorHandler and the call of this.app.listen follow
\* without an await.
RegisterAndListen(i) ==
  LET extensions == bundles + 1
      registered == registerRoutes(routeTable, routeCalls,
                                   phase # "configured", extensions)
  IN  /\ bundles' = extensions
      /\ runBundle' = [runBundle EXCEPT ![i] = extensions]
      /\ routeTable' = registered.routes
      /\ routeCalls' = registered.calls
      /\ IF registered.threw
         THEN /\ initPc' = [initPc EXCEPT ![i] = "rejected"]
              /\ rejection' = [rejection EXCEPT ![i] = "routeRefused"]
              /\ UNCHANGED <<errorHandlerInstalled, log>>
         ELSE /\ errorHandlerInstalled' = TRUE
              /\ log' = log \o <<<<i, "routes">>, <<i, "errorHandler">>>>
              /\ initPc' = [initPc EXCEPT ![i] = "listen"]
              /\ UNCHANGED rejection
      /\ UNCHANGED <<autoDocs, phase, closePc, docsRegistered, received,
                     exitCode>>
      /\ UNCHANGED <<pipelineVars, routeVars>>

\* createExtensions resolves: the connectivity check passed, or the build
\* of the factory performs none.
CreateExtensions(i) ==
  /\ initPc[i] = "extensions"
  /\ phase # "exited"
  /\ RegisterAndListen(i)
  /\ UNCHANGED console

\* createExtensions rejects (knex refuses the configuration): initialize()
\* rejects before any route is registered.
CreateExtensionsFails(i) ==
  /\ initPc[i] = "extensions"
  /\ phase # "exited"
  /\ initPc' = [initPc EXCEPT ![i] = "rejected"]
  /\ rejection' = [rejection EXCEPT ![i] = "knexConfig"]
  /\ UNCHANGED <<autoDocs, phase, closePc, docsRegistered, routeTable,
                 routeCalls, errorHandlerInstalled, bundles, runBundle, log,
                 received, console, exitCode>>
  /\ UNCHANGED <<pipelineVars, routeVars>>

\* What `SELECT 1` can fail with.
CheckErrors == {"ECONNREFUSED", "authenticationFailed"}

\* The text console.error prints when the connectivity check fails.
PgFailed == "PostgreSQL connection failed:"

\* Mutant of connectivityCheck: the catch block logs and does not rethrow.
connectivityCheckSwallowing(i, failure, printed) ==
  [threw   |-> FALSE,
   error   |-> "none",
   console |-> IF failure = "none" THEN printed
               ELSE Append(printed, <<i, "error", PgFailed, failure>>)]

\* The try block of the factory around `await extensions.pg.raw('SELECT 1')`:
\* a failure is printed and thrown again.
connectivityCheck(i, failure, printed) ==
  [threw   |-> failure # "none",
   error   |-> failure,
   console |-> IF failure = "none" THEN printed
               ELSE Append(printed, <<i, "error", PgFailed, failure>>)]

\* The factory that checks connectivity (config.extensions.pg and
\* config.dbConnection are set) and `SELECT 1` fails: createExtensions
\* rejects, and so does initialize(), which awaits it before registerRoutes.
ConnectivityCheckFails(i) ==
  /\ initPc[i] = "extensions"
  /\ phase # "exited"
  /\ \E failure \in CheckErrors :
       LET c == connectivityCheck(i, failure, console)
       IN  /\ console' = c.console
           /\ IF c.threw
              THEN /\ initPc' = [initPc EXCEPT ![i] = "rejected"]
                   /\ rejection' = [rejection EXCEPT ![i] = c.error]
                   /\ UNCHANGED <<autoDocs, phase, closePc, docsRegistered,
                                  routeTable, routeCalls, errorHandlerInstalled,
                                  bundles, runBundle, log, received, exitCode>>
                   /\ UNCHANGED <<pipelineVars, routeVars>>
              ELSE RegisterAndListen(i)

\* The text console.error prints when this.app.listen fails.
FailedToStart == "Failed to start server:"

\* Mutant of listenCatch: process.exit(1) comes first, so that
\* console.error never runs.
listenCatchExitFirst(i, printed) ==
  [console |-> printed, exitCode |-> Num(1)]

\* The catch block around this.app.listen: console.error, then
\* process.exit(1).
listenCatch(i, printed) ==
  [console  |-> Append(printed, <<i, "error", FailedToStart>>),
   exitCode |-> Num(1)]

\* this.app.listen settles: the server listens, or the catch block runs.
\* A server that is already listening or closed cannot be opened.
Listen(i) ==
  /\ initPc[i] = "listen"
  /\ phase # "exited"
  /\ \/ /\ phase = "configured"
        /\ phase' = "listening"
        /\ log' = Append(log, <<i, "listening">>)
        /\ initPc' = [initPc EXCEPT ![i] = "returned"]
        /\ UNCHANGED <<console, exitCode>>
     \/ LET c == listenCatch(i, console)
        IN  /\ console' = c.console
            /\ exitCode' = c.exitCode
            /\ phase' = "exited"
            /\ log' = log
            /\ initPc' = [initPc EXCEPT ![i] = "exited"]
  /\ UNCHANGED <<autoDocs, closePc, docsRegistered, routeTable, routeCalls,
                 errorHandlerInstalled, bundles, runBundle, received,
                 rejection>>
  /\ UNCHANGED <<pipelineVars, routeVars>>

\* close() is called and suspends at await this.app.close().
CallClose ==
  /\ closePc = "idle"
  /\ phase # "exited"
  /\ closePc' = "closing"
  /\ UNCHANGED <<autoDocs, phase, initPc, docsRegistered, routeTable,
                 routeCalls, errorHandlerInstalled, bundles, runBundle, log,
                 received, console, exitCode, rejection>>
  /\ UNCHANGED <<pipelineVars, routeVars>>

\* this.app.close() resolves.
CloseDone ==
  /\ closePc = "closing"
  /\ phase # "exited"
  /\ closePc' = "returned"
  /\ phase' = "closed"
  /\ log' = Append(log, <<0, "closed">>)
  /\ UNCHANGED <<autoDocs, initPc, docsRegistered, routeTable, routeCalls,
                 errorHandlerInstalled, bundles, runBundle, received, console,
                 exitCode, rejection>>
  /\ UNCHANGED <<pipelineVars, routeVars>>

\* A request reaches a registered route and its route handler calls the
\* application handler.
HandlerCall(rt) ==
  /\ phase = "listening"
  /\ routeTable[rt] # 0
  /\ received' = received \cup
       {[route |-> rt, extensions |-> handlerExtensions(routeTable[rt])]}
  /\ UNCHANGED <<autoDocs, phase, initPc, closePc, docsRegistered, routeTable,
                 routeCalls, errorHandlerInstalled, bundles, runBundle, log,
                 console, exitCode, rejection>>
  /\ UNCHANGED <<pipelineVars, routeVars>>

InitLifecycle ==
  /\ Configured
  /\ dev = FALSE
  /\ validatorCompiler = FALSE
  /\ pc = [r \in Reqs |-> "idle"]
  /\ route = [r \in Reqs |-> NoRoute]
  /\ outcome = [r \in Reqs |-> NoOutcome]
  /\ pending = [r \in Reqs |-> Undefined]
  /\ escaped = [r \in Reqs |-> FALSE]
  /\ replies = [r \in Reqs |-> <<>>]
  /\ stages = [r \in Reqs |-> <<>>]
  /\ Unrouted

NextLifecycle ==
  \/ \E i \in Inits : CallInitialize(i)
  \/ \E i \in Inits : SetupDocs(i)
  \/ \E i \in Inits : CreateExtensions(i)
  \/ \E i \in Inits : CreateExtensionsFails(i)
  \/ \E i \in Inits : ConnectivityCheckFails(i)
  \/ \E i \in Inits : Listen(i)
  \/ CallClose
  \/ CloseDone
  \/ \E rt \in RouteNames : HandlerCall(rt)

SpecLifecycle == InitLifecycle /\ [][NextLifecycle]_vars

(* ------------------------------------------------------------------ *)
(* Requests in flight together                                         *)
(* ------------------------------------------------------------------ *)

\* The routes the concurrent specification serves: one without response
\* schema, one POST and one DELETE route with a schema for their code.
ConcurrentRoutes ==
  {PlainRoute,
   [method |-> "POST",
    response |-> [c \in ResponseCodes |-> IF c = 201 THEN SchemaB ELSE Undefined]],
   [method |-> "DELETE",
    response |-> [c \in ResponseCodes |-> IF c = 204 THEN SchemaA ELSE Undefined]]}

\* How the application handlers of the concurrent specification settle.
ConcurrentOutcomes ==
  {Returned(v) : v \in {Undefined, Obj("v1"), Obj("v2")}} \cup
  {Thrown(e) : e \in
     {Null,
      NewError(<<"boom">>),
      ErrorObject(Str(<<"missing">>), Undefined, Num(404), Undefined,
                  Str(<<"NotFoundError">>), Undefined, Undefined),
      NewError(<<Quote, "email", Quote, SP, IR>>)}}

ArriveConcurrent(r) ==
  /\ pc[r] = "idle"
  /\ \E rt \in ConcurrentRoutes, oc \in ConcurrentOutcomes : Dispatch(r, rt, oc)

\* process.env.NODE_ENV is assigned while the server runs; handleError
\* reads it anew on every call.
SetEnv ==
  /\ dev' = ~dev
  /\ UNCHANGED <<validatorCompiler, pc, route, outcome, pending, escaped,
                 replies, stages, lifecycleVars, routeVars>>

NextConcurrent ==
  \/ \E r \in Reqs :
       \/ ArriveConcurrent(r)
       \/ Resume(r)
       \/ CatchAll(r)
       \/ Finish(r)
  \/ SetEnv

SpecConcurrent == Init /\ [][NextConcurrent]_vars

\* The routes of the interleaving specification: a POST route with a
\* schema for 201 and a DELETE route without response schema.
InterleavedRoutes ==
  {[method |-> "POST",
    response |-> [c \in ResponseCodes |-> IF c = 201 THEN SchemaB ELSE Undefined]],
   [method |-> "DELETE", response |-> [c \in ResponseCodes |-> Undefined]]}

\* How the application handlers of the interleaving specification settle:
\* a result SchemaB rejects, one it accepts, a thrown null and a thrown
\* error with a statusCode.
InterleavedOutcomes ==
  {Returned(Obj("v1")), Returned(Obj("v2")), Thrown(Null),
   Thrown(ErrorObject(Str(<<"missing">>), Undefined, Num(404), Undefined,
                      Str(<<"NotFoundError">>), Undefined, Undefined))}

ArriveInterleaved(r) ==
  /\ pc[r] = "idle"
  /\ \E rt \in InterleavedRoutes, oc \in InterleavedOutcomes : Dispatch(r, rt, oc)

NextInterleaved ==
  \E r \in Reqs :
    \/ ArriveInterleaved(r)
    \/ Resume(r)
    \/ CatchAll(r)
    \/ Finish(r)

\* The continuation of a request that is ready to run: its route handler
\* after the application handler settled, or the error handler after a
\* rejection.
Continue(r) == Resume(r) \/ CatchAll(r)

\* Requests in flight together, with an event loop that runs every
\* continuation that is ready.
SpecInterleaved ==
  /\ Init
  /\ [][NextInterleaved]_vars
  /\ \A r \in Reqs : WF_vars(Continue(r))

(* ------------------------------------------------------------------ *)
(* One route definition through registerRoutes, one request through    *)
(* the route                                                           *)
(* ------------------------------------------------------------------ *)

\* The loop body of registerRoutes for the route: the URL and the schema
\* are built and handed to this.app.route.
RegisterRoute ==
  /\ handed = <<>>
  /\ "route" \in DOMAIN heap
  /\ heap' = normalize(heap)
  /\ handed' = <<[method |-> heap["route"].method,
                  url    |-> fullPath(prefix, heap["route"].path.s),
                  schema |-> Obj("routeSchema")]>>
  /\ UNCHANGED <<prefix, supplied, raw, data, adapted>>
  /\ UNCHANGED <<pipelineVars, lifecycleVars>>

\* The framework delivers a request to the registered route, whose handler
\* calls route.handler.
CallHandler(request) ==
  /\ handed # <<>>
  /\ raw = NoRequest
  /\ raw' = request
  /\ data' = handlerData(heap, request)
  /\ UNCHANGED <<prefix, heap, supplied, handed, adapted>>
  /\ UNCHANGED <<pipelineVars, lifecycleVars>>

\* Validator.validateRequest is called with the request and route.schema.
ValidateRequest ==
  /\ raw # NoRequest
  /\ adapted = Absent
  /\ adapted' = validateRequest(heap, raw, Get(heap["route"], "schema"))
  /\ UNCHANGED <<prefix, heap, supplied, handed, raw, data>>
  /\ UNCHANGED <<pipelineVars, lifecycleVars>>

\* The default of this.options.prefix, in the model's characters.
DefaultPrefix == <<Slash, "a">>

\* new Service(options) with one route: definitions that differ in schema
\* or config under the default prefix, and every prefix with every path.
InitRoute ==
  /\ Configured
  /\ autoDocs = FALSE
  /\ dev = FALSE
  /\ validatorCompiler = FALSE
  /\ pc = [r \in Reqs |-> "idle"]
  /\ route = [r \in Reqs |-> NoRoute]
  /\ outcome = [r \in Reqs |-> NoOutcome]
  /\ pending = [r \in Reqs |-> Undefined]
  /\ escaped = [r \in Reqs |-> FALSE]
  /\ replies = [r \in Reqs |-> <<>>]
  /\ stages = [r \in Reqs |-> <<>>]
  /\ \/ /\ prefix = DefaultPrefix
        /\ heap \in SchemaHeaps \cup ConfigHeaps
     \/ /\ prefix \in PathStrings
        /\ heap \in PathHeaps
  /\ supplied = heap
  /\ handed = <<>>
  /\ raw = NoRequest
  /\ data = Absent
  /\ adapted = Absent

NextRoute ==
  \/ RegisterRoute
  \/ \E request \in RawRequests : CallHandler(request)
  \/ ValidateRequest

SpecRoute == InitRoute /\ [][NextRoute]_vars

(* ------------------------------------------------------------------ *)
(* Claims                                                              *)
(* ------------------------------------------------------------------ *)

\* A reply sent by the success path of the route handler.
IsSuccessReply(reply) == reply.via = "route"

\* A reply whose body was built by one of the error classifiers.
IsErrorReply(reply) ==
  /\ reply.via \in {"handleError", "handleSerializationError", "errorHandler"}
  /\ reply.body.t = "errorResponse"

\* C1: for every request dispatched to a route, whatever the handler does
\* and whatever response schema is declared, at most one reply is ever
\* sent, and once the request is finished exactly one reply was sent, which
\* is either a success reply or a classified-error reply.
C1_ExactlyOneReply ==
  \A r \in Reqs :
    /\ Len(replies[r]) <= 1
    /\ pc[r] = "done" =>
         /\ Len(replies[r]) = 1
         /\ IsSuccessReply(replies[r][1]) # IsErrorReply(replies[r][1])

\* C1 witness: a handler threw a value the classifier could not read, the
\* route handler's promise rejected, and the request still ended with its
\* one reply.
C1_Witness ==
  \E r \in Reqs :
    /\ pc[r] = "done"
    /\ outcome[r].kind = "throw"
    /\ escaped[r]
    /\ Len(replies[r]) = 1

\* The request has run to its end after its handler returned a value.
HandlerReturned(r) == pc[r] = "done" /\ outcome[r].kind = "return"

\* The status code resolved for a request whose handler returned.
ResolvedStatus(r) == getStatusCode(route[r].method, outcome[r].value)

\* The entry of the route's response map for the resolved status code.
ResolvedSchema(r) == route[r].response[ResolvedStatus(r)]

\* The route declares a schema for the resolved status and the handler's
\* result fails it.
ResultFailsSchema(r) ==
  /\ HandlerReturned(r)
  /\ Truthy(ResolvedSchema(r))
  /\ outcome[r].value \notin ResolvedSchema(r).accepts

\* The route declares a schema for the resolved status and the handler's
\* result satisfies it.
ResultSatisfiesSchema(r) ==
  /\ HandlerReturned(r)
  /\ Truthy(ResolvedSchema(r))
  /\ outcome[r].value \in ResolvedSchema(r).accepts

\* details.type of an error body, "none" when the body has no details.
DetailsType(body) ==
  IF body.t = "errorResponse" /\ "type" \in DOMAIN body.details
  THEN body.details.type ELSE "none"

\* C2 as stated: a result that fails the schema declared for the resolved
\* status is answered with status 422 and a body whose details.type is
\* missing_field or response_validation.
C2_Original ==
  \A r \in Reqs :
    ResultFailsSchema(r) =>
      /\ Len(replies[r]) = 1
      /\ replies[r][1].status = 422
      /\ DetailsType(replies[r][1].body) \in {"missing_field", "response_validation"}

\* C2 amended: a result that fails the schema declared for the resolved
\* status is always answered with status 422; the body's details.type is
\* missing_field or response_validation when the validator compiler is
\* available, and when it is not the body is a 'Serialization Error'
\* without details.
C2_SchemaFailureIs422 ==
  \A r \in Reqs :
    ResultFailsSchema(r) =>
      /\ Len(replies[r]) = 1
      /\ replies[r][1].status = 422
      /\ replies[r][1].status # ResolvedStatus(r)
      /\ IF validatorCompiler
         THEN DetailsType(replies[r][1].body)
                \in {"missing_field", "response_validation"}
         ELSE /\ replies[r][1].body.error = Str(<<"Serialization Error">>)
              /\ replies[r][1].body.details = Undefined

\* C2 witness: the validator ran, rejected the result of a POST handler,
\* and the reply is 422 response_validation instead of 201.
C2_Witness ==
  \E r \in Reqs :
    /\ ResultFailsSchema(r)
    /\ validatorCompiler
    /\ ResolvedStatus(r) = 201
    /\ replies[r][1].status = 422
    /\ DetailsType(replies[r][1].body) = "response_validation"

\* C3: no success reply carries a body that fails the schema the route
\* declares for the reply's status code.
C3_SuccessBodySatisfiesSchema ==
  \A r \in Reqs :
    \A i \in 1..Len(replies[r]) :
      LET reply == replies[r][i]
      IN  (/\ IsSuccessReply(reply)
           /\ reply.status \in ResponseCodes
           /\ Truthy(route[r].response[reply.status]))
            => reply.body \in route[r].response[reply.status].accepts

\* C3 witness: a success reply with status 200 went out on a route that
\* declares a schema for 200.
C3_Witness ==
  \E r \in Reqs :
    /\ pc[r] = "done"
    /\ Len(replies[r]) = 1
    /\ IsSuccessReply(replies[r][1])
    /\ replies[r][1].status = 200
    /\ Truthy(route[r].response[200])

\* C4: the status of every success reply is 201 for POST with a result
\* other than undefined, otherwise 204 for DELETE, otherwise 200.
C4_StatusCodePolicy ==
  \A r \in Reqs :
    \A i \in 1..Len(replies[r]) :
      IsSuccessReply(replies[r][i]) =>
        replies[r][i].status =
          (IF route[r].method = "POST" /\ outcome[r].value # Undefined THEN 201
           ELSE IF route[r].method = "DELETE" THEN 204
           ELSE 200)

\* C4 witness: a POST handler returned undefined and the reply is 200.
C4_Witness ==
  \E r \in Reqs :
    /\ HandlerReturned(r)
    /\ route[r].method = "POST"
    /\ outcome[r].value = Undefined
    /\ Len(replies[r]) = 1
    /\ IsSuccessReply(replies[r][1])
    /\ replies[r][1].status = 200

\* C5 as stated: the success reply of a DELETE route has status 204 and
\* no body, whatever the handler returned.
C5_DeleteHasNoBody ==
  \A r \in Reqs :
    \A i \in 1..Len(replies[r]) :
      (IsSuccessReply(replies[r][i]) /\ route[r].method = "DELETE") =>
        /\ replies[r][i].status = 204
        /\ replies[r][i].body = Undefined

C8_NothingEscapes == \A r \in Reqs : ~escaped[r]

\* The fields f for which s contains "f" is required! with f free of quotes.
PatternFields(s) ==
  { SubSeq(s, ij[1] + 1, ij[2] - 1) :
      ij \in { p \in (1..Len(s)) \X (1..Len(s)) :
                 /\ p[1] + 1 < p[2]
                 /\ p[2] + 2 <= Len(s)
                 /\ s[p[1]] = Quote
                 /\ s[p[2]] = Quote
                 /\ \A k \in (p[1] + 1)..(p[2] - 1) : s[k] # Quote
                 /\ s[p[2] + 1] = SP
                 /\ s[p[2] + 2] = IR } }

\* The request ended after its handler threw an object.
ThrewObject(r) ==
  /\ pc[r] = "done"
  /\ outcome[r].kind = "throw"
  /\ outcome[r].value.t = "error"

\* The thrown object's message matches "<field>" is required!
HasMissingFieldMessage(r) ==
  /\ outcome[r].value.message.t = "string"
  /\ PatternFields(outcome[r].value.message.s) # {}

\* The thrown object carries a non-empty list of validation failures.
HasValidationList(r) ==
  /\ outcome[r].value.validation.t = "array"
  /\ outcome[r].value.validation.l # <<>>

\* C9: a thrown value whose message matches "<field>" is required! is
\* answered with 422, error 'Validation Error', reason 'Field "<field>" is
\* required' and details {type: missing_field, field}, whatever other
\* recognised shapes (validation list, statusCode, code) it carries.
C9_MissingFieldWins ==
  \A r \in Reqs :
    (ThrewObject(r) /\ HasMissingFieldMessage(r)) =>
      /\ Len(replies[r]) = 1
      /\ replies[r][1].status = 422
      /\ replies[r][1].body.error = Str(<<"Validation Error">>)
      /\ \E f \in PatternFields(outcome[r].value.message.s) :
           /\ replies[r][1].body.reason =
                Str(<<"Field ", Quote>> \o f \o <<Quote, " is required">>)
           /\ replies[r][1].body.details =
                [type |-> "missing_field", field |-> Str(f)]

\* C9 witness: the thrown value carried a matching message together with
\* a validation list, a statusCode and the conflict code, and the reply is
\* the 422 missing_field one.
C9_Witness ==
  \E r \in Reqs :
    /\ ThrewObject(r)
    /\ HasMissingFieldMessage(r)
    /\ HasValidationList(r)
    /\ Truthy(outcome[r].value.statusCode)
    /\ outcome[r].value.code = Str(<<"23505">>)
    /\ replies[r][1].status = 422

\* A location pointer with its leading '/' removed.
StripLeadingSlash(s) == IF s # <<>> /\ Head(s) = Slash THEN Tail(s) ELSE s

\* The 400 reply the claim describes for a validation list, with the given
\* field name.
IsValidationReply(r, field) ==
  /\ Len(replies[r]) = 1
  /\ replies[r][1].status = 400
  /\ replies[r][1].body.error = Str(<<"Validation Error">>)
  /\ replies[r][1].body.reason =
       Str(field \o <<": ">> \o outcome[r].value.validation.l[1].message.s)
  /\ replies[r][1].body.details =
       [type |-> "validation", errors |-> outcome[r].value.validation]

\* C10 as stated: a thrown value with a non-empty validation list and no
\* missing-field message is answered with 400 and the validation body, the
\* field being the first pointer without its leading '/', or 'field' when
\* the pointer is absent.
C10_Original ==
  \A r \in Reqs :
    (ThrewObject(r) /\ HasValidationList(r) /\ ~HasMissingFieldMessage(r)) =>
      LET pointer == outcome[r].value.validation.l[1].instancePath
      IN  IsValidationReply(r,
            IF pointer = Undefined THEN <<"field">>
            ELSE StripLeadingSlash(pointer.s))

\* C10 amended: a thrown value with a non-empty validation list whose
\* message does not contain 'is required!' is answered with 400 and the
\* validation body carrying the full list in order, the field being the
\* first pointer without its leading '/', or 'field' when the pointer is
\* absent or nothing is left of it after the '/' is removed.
C10_ValidationListIs400 ==
  \A r \in Reqs :
    (/\ ThrewObject(r)
     /\ HasValidationList(r)
     /\ ~(/\ outcome[r].value.message.t = "string"
          /\ \E i \in 1..Len(outcome[r].value.message.s) :
               outcome[r].value.message.s[i] = IR)) =>
      LET pointer == outcome[r].value.validation.l[1].instancePath
      IN  IsValidationReply(r,
            IF pointer = Undefined \/ StripLeadingSlash(pointer.s) = <<>>
            THEN <<"field">>
            ELSE StripLeadingSlash(pointer.s))

\* C10 witness: the list holds two failures, the first with a nested
\* pointer, and the 400 reply carries both.
C10_Witness ==
  \E r \in Reqs :
    /\ ThrewObject(r)
    /\ HasValidationList(r)
    /\ Len(outcome[r].value.validation.l) = 2
    /\ outcome[r].value.validation.l[1].instancePath
         = Str(<<Slash, "user", Slash, "email">>)
    /\ outcome[r].value.validation.l[2].instancePath = Str(<<>>)
    /\ replies[r][1].status = 400
    /\ Len(replies[r][1].body.details.errors.l) = 2

\* The request ended after its handler threw (a value of any kind).
ThrewValue(r) == pc[r] = "done" /\ outcome[r].kind = "throw"

\* The message of a thrown value contains 'is required!'.
MessageHasIsRequired(v) ==
  /\ Prop(v, "message").t = "string"
  /\ \E i \in 1..Len(Prop(v, "message").s) : Prop(v, "message").s[i] = IR

\* A thrown value carries a non-empty list of validation failures.
CarriesFailures(v) ==
  /\ Prop(v, "validation").t = "array"
  /\ Prop(v, "validation").l # <<>>

\* C11 as stated: a thrown value with no statusCode whose code is '23505'
\* is answered with status 409 and a body whose error is 'Resource already
\* exists'.
C11_ConflictIs409 ==
  \A r \in Reqs :
    (/\ ThrewObject(r)
     /\ outcome[r].value.statusCode = Undefined
     /\ outcome[r].value.code = Str(<<"23505">>)) =>
      /\ Len(replies[r]) = 1
      /\ replies[r][1].status = 409
      /\ replies[r][1].body.error = Str(<<"Resource already exists">>)

\* C12 as stated: a thrown value with a statusCode, whose message is not a
\* missing-field message and which carries no non-empty validation list, is
\* answered with that status code and the body {error: name or 'Error',
\* reason: message, details: its details when it has any}.
C12_StatusCodeIsEchoed ==
  \A r \in Reqs :
    (/\ ThrewObject(r)
     /\ Truthy(outcome[r].value.statusCode)
     /\ ~MessageHasIsRequired(outcome[r].value)
     /\ ~CarriesFailures(outcome[r].value)) =>
      /\ Len(replies[r]) = 1
      /\ replies[r][1].status = outcome[r].value.statusCode.n
      /\ replies[r][1].body.error =
           (IF Truthy(outcome[r].value.name) THEN outcome[r].value.name
            ELSE Str(<<"Error">>))
      /\ replies[r][1].body.reason = outcome[r].value.message
      /\ replies[r][1].body.details =
           (IF Truthy(outcome[r].value.details) THEN outcome[r].value.details
            ELSE Undefined)

\* A thrown value matches none of the recognised shapes: no missing-field
\* message, no non-empty validation list, no statusCode, no conflict code.
MatchesNoShape(v) ==
  /\ ~MessageHasIsRequired(v)
  /\ ~CarriesFailures(v)
  /\ ~Truthy(Prop(v, "statusCode"))
  /\ Prop(v, "code") # Str(<<"23505">>)

\* C13 as stated: any thrown value that matches none of the recognised
\* shapes is answered with status 500 and the body {error: 'Internal Server
\* Error', reason: its message, or 'Something went wrong' when it has none}.
C13_FallbackIs500 ==
  \A r \in Reqs :
    (ThrewValue(r) /\ MatchesNoShape(outcome[r].value)) =>
      /\ Len(replies[r]) = 1
      /\ replies[r][1].status = 500
      /\ replies[r][1].body.error = Str(<<"Internal Server Error">>)
      /\ replies[r][1].body.reason =
           (IF Truthy(Prop(outcome[r].value, "message"))
            THEN Prop(outcome[r].value, "message")
            ELSE Str(<<"Something went wrong">>))

\* The framework rejected the request upstream and now hands the failure
\* to the installed error handler.
UpstreamFailureHandled(r) ==
  /\ pc[r] = "failed"
  /\ ~escaped[r]
  /\ pc'[r] = "done"

\* The 400 reply to the upstream failure held in pending[r], with the
\* given details.type and stack.
UpstreamReplyIs(r, type, stack) ==
  LET errors  == pending[r].validation
      pointer == errors.l[1].instancePath
      field   == IF pointer = Undefined \/ StripLeadingSlash(pointer.s) = <<>>
                 THEN <<"field">>
                 ELSE StripLeadingSlash(pointer.s)
  IN  /\ Len(replies'[r]) = 1
      /\ replies'[r][1].status = 400
      /\ replies'[r][1].body.error = Str(<<"Validation Error">>)
      /\ replies'[r][1].body.reason =
           Str(field \o <<": ">> \o errors.l[1].message.s)
      /\ replies'[r][1].body.details = [type |-> type, errors |-> errors]
      /\ replies'[r][1].body.stack = stack

\* C14 as stated: an upstream request-validation failure reaching the
\* global error handler is answered exactly as classifier case 2 answers
\* the same failure: 400, 'Validation Error', reason from the first
\* failure, details {type: 'validation', errors: the full list}, and the
\* stack that case 2 attaches in development mode.
C14_Original ==
  [][\A r \in Reqs :
       UpstreamFailureHandled(r) =>
         UpstreamReplyIs(r, "validation", stackOf(pending[r], dev))]_vars

\* C14 amended: an upstream request-validation failure reaching the global
\* error handler is answered with 400, 'Validation Error', the reason built
\* from the first failure, and details {type: 'request_validation', errors:
\* the full list}; the body never carries a stack.
C14_UpstreamValidationIs400 ==
  [][\A r \in Reqs :
       UpstreamFailureHandled(r) =>
         UpstreamReplyIs(r, "request_validation", Undefined)]_vars

\* C14 witness: a request was rejected upstream with two failures while in
\* development mode, and the 400 reply of the global handler carries both.
C14_Witness ==
  \E r \in Reqs :
    /\ pc[r] = "done"
    /\ outcome[r].kind = "none"
    /\ dev
    /\ Len(replies[r]) = 1
    /\ replies[r][1].via = "errorHandler"
    /\ replies[r][1].status = 400
    /\ Len(replies[r][1].body.details.errors.l) = 2

\* C15 as stated: on every error path an error reply body contains a stack
\* field if and only if the process runs in development mode.
C15_Original ==
  \A r \in Reqs :
    \A i \in 1..Len(replies[r]) :
      IsErrorReply(replies[r][i]) =>
        ((replies[r][i].body.stack # Undefined) <=> dev)

\* The error handleError classified for a request: the TypeError its first
\* run raised when the route handler's promise rejected, else the value the
\* handler threw.
ClassifiedError(r) == IF escaped[r] THEN TypeError ELSE outcome[r].value

\* C15 amended: an error reply body contains a stack field only in
\* development mode.  In development mode the replies built by handleError
\* (handler throw, global catch-all) carry the stack of the classified
\* error when it has one; the replies to an upstream validation failure and
\* to a response-validation failure never carry a stack.
C15_StackOnlyInDevelopment ==
  \A r \in Reqs :
    \A i \in 1..Len(replies[r]) :
      LET reply == replies[r][i]
      IN  IsErrorReply(reply) =>
            /\ (reply.body.stack # Undefined) => dev
            /\ reply.via \in {"handleSerializationError", "errorHandler"}
                 => reply.body.stack = Undefined
            /\ reply.via = "handleError" =>
                 reply.body.stack =
                   (IF dev /\ Truthy(Prop(ClassifiedError(r), "stack"))
                    THEN Prop(ClassifiedError(r), "stack")
                    ELSE Undefined)

\* C15 witness: outside development mode a handler threw an error that has
\* a stack, and the classified reply carries none.
C15_Witness ==
  \E r \in Reqs :
    /\ ~dev
    /\ ThrewObject(r)
    /\ ~escaped[r]
    /\ Truthy(outcome[r].value.stack)
    /\ Len(replies[r]) = 1
    /\ replies[r][1].via = "handleError"
    /\ replies[r][1].body.stack = Undefined

\* The lifecycle steps the i-th call of initialize() has completed, in
\* order.
StepsOf(i) ==
  LET own == SelectSeq(log, LAMBDA e : e[1] = i)
  IN  [k \in 1..Len(own) |-> own[k][2]]

\* s is an initial segment of t.
IsPrefix(s, t) == Len(s) <= Len(t) /\ \A k \in 1..Len(s) : s[k] = t[k]

\* C17: the steps of every run of initialize() occur in the order docs
\* registration (only when autoDocs is on), registration of the routes,
\* installation of the error handler, listening; the server listens only
\* when every declared route is registered and the error handler is
\* installed; and it is closed only after close() was called.
C17_LifecycleOrder ==
  /\ \A i \in Inits :
       /\ \/ IsPrefix(StepsOf(i), <<"docs", "routes", "errorHandler", "listening">>)
          \/ IsPrefix(StepsOf(i), <<"routes", "errorHandler", "listening">>)
       /\ (\E k \in 1..Len(StepsOf(i)) : StepsOf(i)[k] = "docs") => autoDocs
  /\ phase = "listening" =>
       /\ \A rt \in RouteNames : routeTable[rt] # 0
       /\ errorHandlerInstalled
  /\ phase = "closed" => closePc = "returned"
  /\ \A k \in 1..Len(log) :
       log[k][2] = "closed" => closePc = "returned"

\* C17 witness: with autoDocs on, one run went through docs, routes, error
\* handler and listening, and the server was then closed by close().
C17_Witness ==
  /\ autoDocs
  /\ phase = "closed"
  /\ log = <<<<1, "docs">>, <<1, "routes">>, <<1, "errorHandler">>,
             <<1, "listening">>, <<0, "closed">>>>

C20_ExtensionsBuiltOncePassedToAll ==
  /\ bundles = Cardinality({i \in Inits : runBundle[i] # 0})
  /\ \A i, j \in Inits :
       (i # j /\ runBundle[i] # 0) => runBundle[i] # runBundle[j]
  /\ \A i \in Inits :
       (\E k \in 1..Len(StepsOf(i)) : StepsOf(i)[k] = "routes")
         => runBundle[i] # 0
  /\ \A rt \in RouteNames :
       routeTable[rt] # 0 => \E i \in Inits : routeTable[rt] = runBundle[i]
  /\ \A a, b \in RouteNames :
       (routeTable[a] # 0 /\ routeTable[b] # 0) => routeTable[a] = routeTable[b]
  /\ \A c \in received :
       /\ c.extensions # 0
       /\ c.extensions = routeTable[c.route]

\* C20 witness: the handlers of both routes have been invoked and both
\* received the bundle the first run of initialize() constructed.
C20_Witness ==
  /\ phase = "listening"
  /\ received = {[route |-> rt, extensions |-> runBundle[1]] : rt \in RouteNames}
  /\ runBundle[1] # 0

\* An error body without its stack field.
SansStack(body) ==
  IF body.t = "errorResponse" THEN [body EXCEPT !.stack = Undefined] ELSE body

OwnReplies(r) ==
  { LET h == routeHandler(route[r], outcome[r], validatorCompiler, errs, dev)
    IN  IF h.threw THEN errorHandler(h.error, dev).sent ELSE h.sent :
      errs \in ValidatorErrors(route[r], outcome[r], validatorCompiler) }

\* A step of one request leaves every other request as it was, and a reply
\* appears only on the request whose route handler or error handler ran.
OthersUntouched ==
  \A r \in Reqs :
    (pc'[r] # pc[r] \/ replies'[r] # replies[r]) =>
      /\ pc'[r] # pc[r]
      /\ \A s \in Reqs \ {r} :
           /\ pc'[s] = pc[s]
           /\ route'[s] = route[s]
           /\ outcome'[s] = outcome[s]
           /\ pending'[s] = pending[s]
           /\ escaped'[s] = escaped[s]
           /\ replies'[s] = replies[s]

CheckFailedIn(i) ==
  \E k \in 1..Len(console) :
    /\ console[k][1] = i
    /\ console[k][2] = "error"
    /\ console[k][3] = PgFailed

C22_ListenFailureExits ==
  /\ []((phase = "exited") <=> (exitCode # Undefined))
  /\ [](phase = "exited" =>
          /\ exitCode = Num(1)
          /\ console # <<>>
          /\ \E i \in Inits :
               /\ initPc[i] = "exited"
               /\ console[Len(console)] = <<i, "error", FailedToStart>>
               /\ \A j \in Inits \ {i} : initPc[j] # "exited"
          /\ \A k \in 1..Len(log) : log[k][2] # "listening")
  /\ [][phase # "exited"]_vars

\* C22 witness: every route was registered and the error handler
\* installed, then listen failed and the process exited.
C22_Witness ==
  /\ phase = "exited"
  /\ initPc[1] = "exited"
  /\ errorHandlerInstalled
  /\ \A rt \in RouteNames : routeTable[rt] = 1

\* The documentation set-up of call i failed: setupDocs printed its warning.
DocsFailedIn(i) ==
  \E k \in 1..Len(console) : console[k] = <<i, "warn", DocsDisabled>>

\* C23: a failed documentation set-up changes nothing but the console and
\* the position of the call, which goes on to createExtensions exactly as
\* after a successful set-up; the call never rejects because of it, while
\* the process runs it can build its extensions, and when it has returned it has registered
\* the routes, installed the error handler and started listening.
C23_DocsFailureIsNotFatal ==
  /\ [](\A i \in Inits :
          DocsFailedIn(i) =>
            /\ initPc[i] \notin {"idle", "docs"}
            /\ rejection[i] # "docs"
            /\ (initPc[i] = "extensions" /\ phase # "exited") =>
                 ENABLED CreateExtensions(i)
            /\ initPc[i] = "returned" =>
                 /\ StepsOf(i) = <<"routes", "errorHandler", "listening">>
                 /\ \A rt \in RouteNames : routeTable[rt] = runBundle[i]
                 /\ errorHandlerInstalled)
  /\ [][\A i \in Inits :
          (initPc[i] = "docs" /\ initPc'[i] # "docs" /\ log' = log) =>
            /\ initPc'[i] = "extensions"
            /\ DocsFailedIn(i)'
            /\ UNCHANGED <<autoDocs, phase, closePc, docsRegistered, routeTable,
                           routeCalls, errorHandlerInstalled, bundles,
                           runBundle, received, exitCode, rejection>>]_vars

\* C23 witness: the documentation set-up of the first call failed and the
\* server listens with every route registered and no docs endpoint.
C23_Witness ==
  /\ DocsFailedIn(1)
  /\ phase = "listening"
  /\ initPc[1] = "returned"
  /\ ~docsRegistered
  /\ errorHandlerInstalled
  /\ \A rt \in RouteNames : routeTable[rt] = 1

\* A route has been handed to the framework.
Registered == handed # <<>>

\* The schema object this.app.route received.
HandedSchema == heap[handed[1].schema.id]

\* What the caller supplied as route.schema.response[c], Undefined if
\* nothing.
SuppliedShape(c) ==
  GetIn(supplied, GetIn(supplied, Get(supplied["route"], "schema"), "response"), c)

\* The default error shape: an object with success (boolean), error
\* (string) and details (array or null).
IsDefaultErrorShape(shape) ==
  /\ Truthy(shape)
  /\ shape.id \in DOMAIN heap
  /\ heap[shape.id] = [type |-> Str(<<"object">>),
                       properties |-> {"success", "error", "details"}]

\* C24: the schema handed to the framework has a response map that holds,
\* for 400 and for 500, the caller's shape when the caller supplied one and
\* the default error shape otherwise.
C24_DefaultErrorShapes ==
  Registered =>
    /\ Truthy(Get(HandedSchema, "response"))
    /\ \A c \in {"400", "500"} :
         LET shape == GetIn(heap, Get(HandedSchema, "response"), c)
         IN  IF Truthy(SuppliedShape(c)) THEN shape = SuppliedShape(c)
             ELSE IsDefaultErrorShape(shape)

\* C25: every object the caller supplied (the route, its schema, its
\* response map, its config) is in memory with the keys and values it was
\* supplied with, before and after the route is registered and served.
C25_DefinitionUnchanged ==
  \A id \in DOMAIN supplied : id \in DOMAIN heap /\ heap[id] = supplied[id]

\* C25 witness: a route whose response map declares 200 only has been
\* registered and has served a request.
C25_Witness ==
  /\ Registered
  /\ raw # NoRequest
  /\ "response" \in DOMAIN supplied
  /\ DOMAIN supplied["response"] = {"200"}
  /\ HandedSchema["hide"] = Bool(FALSE)

\* route.schema declares the section.
Declares(section) ==
  Truthy(GetIn(supplied, Get(supplied["route"], "schema"), section))

\* C26: the data the handler receives has a key for a section only if the
\* schema declares the section, and then the value is the raw value.
C26_OnlyDeclaredSections ==
  data # Absent =>
    \A s \in Sections :
      s \in DOMAIN data => (Declares(s) /\ data[s] = raw[s])

\* C27: the adapter's output has a key for a section exactly when the
\* schema declares the section and the raw value is present (is not
\* undefined), and the value under the key is the raw value.
C27_AdapterKeys ==
  adapted # Absent =>
    \A s \in Sections :
      /\ s \in DOMAIN adapted <=> (Declares(s) /\ raw[s] # Undefined)
      /\ s \in DOMAIN adapted => adapted[s] = raw[s]

\* Two consecutive slashes occur in s.
HasDoubleSlash(s) == \E i \in 1..(Len(s) - 1) : s[i] = Slash /\ s[i + 1] = Slash

\* C30: the URL registered for the route is the prefix followed by the path
\* with every run of slashes collapsed to one, and contains no '//'.
C30_UrlHasNoDoubleSlash ==
  Registered =>
    /\ handed[1].url = collapseSlashRuns(prefix \o supplied["route"].path.s)
    /\ ~HasDoubleSlash(handed[1].url)

\* The place of a stage in the pipeline of one request.
Rank(stage) ==
  CASE stage = "call"     -> 1
    [] stage = "settle"   -> 2
    [] stage = "status"   -> 3
    [] stage = "validate" -> 4
    [] stage = "send"     -> 5

\* How often the stage occurs among the stages request r went through.
Times(r, stage) ==
  Cardinality({i \in 1..Len(stages[r]) : stages[r][i] = stage})

C29_SourceAndBuildAgree ==
  \A r \in Reqs :
    (pc[r] = "done" /\ outcome[r] # NoOutcome /\ replies[r] # <<>>) =>
      LET ts == pipelineTs(route[r], outcome[r], dev)
      IN  /\ ts.sent # <<>>
          /\ ts.sent[1].status = replies[r][1].status
          /\ ts.sent[1].body = replies[r][1].body

====
